---- MODULE Spec2Model ----
(***************************************************************************)
(* A model of scripts/build_rfm.py: load_data, clean_transactions,         *)
(* build_rfm and main.                                                     *)
(*                                                                         *)
(* Representation.  A text (a column name, an invoice identifier) is a     *)
(* sequence of tokens; the token " " is a blank, "C" is the letter C.  A   *)
(* cell of a table is a tagged record:                                     *)
(*   [t |-> "null"]                   NaN / None / NaT                     *)
(*   [t |-> "str",  s |-> text]       a text                               *)
(*   [t |-> "num",  n |-> k]          the number k                         *)
(*   [t |-> "frac", tenths |-> k]     the float k/10                       *)
(*   [t |-> "inf"], [t |-> "ninf"]    +infinity, -infinity                 *)
(*   [t |-> "date", a, b, pm]         the text "a/b/2010" at 00:00         *)
(*                                    (pm = 0) or 12:00 (pm = 1)           *)
(*   [t |-> "ts",   h |-> k]          a Timestamp, k half-days into 2010   *)
(* A table (DataFrame) is [columns |-> Seq(text), rows |-> Seq(Seq(cell))],*)
(* each row aligned with columns.                                          *)
(***************************************************************************)
EXTENDS Integers, Sequences, FiniteSets, TLC

VARIABLES files, fileTable, pc, df_raw, df_clean, rfm, outFile, error, steps

vars == <<files, fileTable, pc, df_raw, df_clean, rfm, outFile, error, steps>>

RAW_PATH_CSV == "data/raw/online_retail.csv"
RAW_PATH_XLSX == "data/raw/online_retail.xlsx"
OUT_PATH == "data/processed/rfm_features.csv"

NONE == [t |-> "none"]

----------------------------------------------------------------------------
(* Cells *)

NULL == [t |-> "null"]
INF == [t |-> "inf"]
NINF == [t |-> "ninf"]
Str(s) == [t |-> "str", s |-> s]
Num(k) == [t |-> "num", n |-> k]
Frac(k) == [t |-> "frac", tenths |-> k]
DateText(a, b, pm) == [t |-> "date", a |-> a, b |-> b, pm |-> pm]
Ts(k) == [t |-> "ts", h |-> k]

isna(v) == v.t = "null"

Range(s) == {s[i] : i \in DOMAIN s}

\* The subsequence of s whose elements satisfy keep, in order (boolean
\* indexing df[mask]).
RECURSIVE SelectRows(_, _)
SelectRows(rows, keep) ==
    IF rows = <<>> THEN <<>>
    ELSE (IF keep[1] THEN <<Head(rows)>> ELSE <<>>)
         \o SelectRows(Tail(rows), [i \in 1..(Len(keep) - 1) |-> keep[i + 1]])

\* Position of column name in the table.
ColIdx(df, name) == CHOOSE i \in DOMAIN df.columns : df.columns[i] = name

\* The series df[name].
Series(df, name) ==
    LET c == ColIdx(df, name) IN [i \in DOMAIN df.rows |-> df.rows[i][c]]

\* df[name] = series
SetCol(df, name, series) ==
    LET c == ColIdx(df, name)
    IN  [df EXCEPT !.rows =
            [i \in DOMAIN df.rows |-> [df.rows[i] EXCEPT ![c] = series[i]]]]

\* df[mask]
Filter(df, mask) == [df EXCEPT !.rows = SelectRows(df.rows, mask)]

\* df.dropna(subset=[name])
dropna_subset(df, name) ==
    LET ser == Series(df, name)
    IN  Filter(df, [i \in DOMAIN df.rows |-> ~isna(ser[i])])

----------------------------------------------------------------------------
(* Column names *)

N_InvoiceNo == <<"InvoiceNo">>
N_Invoice == <<"Invoice">>
N_CustomerID == <<"CustomerID">>
N_Customer_ID == <<"Customer", " ", "ID">>
N_UnitPrice == <<"UnitPrice">>
N_Price == <<"Price">>
N_InvoiceDate == <<"InvoiceDate">>
N_Quantity == <<"Quantity">>
N_TotalPrice == <<"TotalPrice">>
N_Recency == <<"Recency">>
N_Frequency == <<"Frequency">>
N_Monetary == <<"Monetary">>

RECURSIVE lstrip(_)
lstrip(s) == IF s # <<>> /\ Head(s) = " " THEN lstrip(Tail(s)) ELSE s

RECURSIVE rstrip(_)
rstrip(s) ==
    IF s # <<>> /\ s[Len(s)] = " " THEN rstrip(SubSeq(s, 1, Len(s) - 1)) ELSE s

\* str.strip()
strip(c) == rstrip(lstrip(c))

\* df.columns = [c.strip() for c in df.columns]
StripColumns(columns) == [i \in DOMAIN columns |-> strip(columns[i])]

\* rename_map without the entry for "Price".
C4m_rename_map ==
    { <<N_Invoice, N_InvoiceNo>>, <<N_InvoiceNo, N_InvoiceNo>>,
      <<N_Customer_ID, N_CustomerID>>, <<N_CustomerID, N_CustomerID>>,
      <<N_UnitPrice, N_UnitPrice>>,
      <<N_InvoiceDate, N_InvoiceDate>>, <<N_Quantity, N_Quantity>> }

\* rename_map, as its (key, value) pairs.
rename_map ==
    { <<N_Invoice, N_InvoiceNo>>, <<N_InvoiceNo, N_InvoiceNo>>,
      <<N_Customer_ID, N_CustomerID>>, <<N_CustomerID, N_CustomerID>>,
      <<N_Price, N_UnitPrice>>, <<N_UnitPrice, N_UnitPrice>>,
      <<N_InvoiceDate, N_InvoiceDate>>, <<N_Quantity, N_Quantity>> }

\* The renaming left out.
C2m_RenameColumns(columns) == columns

\* df.rename(columns={c: rename_map[c] for c in df.columns if c in rename_map})
RenameColumns(columns) ==
    [i \in DOMAIN columns |->
        IF \E p \in rename_map : p[1] = columns[i]
        THEN (CHOOSE p \in rename_map : p[1] = columns[i])[2]
        ELSE columns[i]]

required_cols == {N_InvoiceNo, N_InvoiceDate, N_CustomerID, N_Quantity, N_UnitPrice}

\* missing = required_cols - set(df.columns)
MissingCols(columns) == required_cols \ Range(columns)

----------------------------------------------------------------------------
(* Cell conversions and arithmetic *)

MonthDays == <<31, 28, 31, 30, 31, 30, 31, 31, 30, 31, 30, 31>>

RECURSIVE DaysBeforeMonth(_)
DaysBeforeMonth(m) == IF m <= 1 THEN 0 ELSE MonthDays[m - 1] + DaysBeforeMonth(m - 1)

\* pd.to_datetime(v, errors="coerce", dayfirst=True): of the text "a/b/2010"
\* the first number is the day and the second the month; what does not parse
\* is NaT.
to_datetime(v) ==
    CASE v.t = "date" -> Ts(2 * (DaysBeforeMonth(v.b) + (v.a - 1)) + v.pm)
      [] v.t = "ts" -> v
      [] OTHER -> NULL

DigitTok == <<"0", "1", "2", "3", "4", "5", "6", "7", "8", "9">>

RECURSIVE Digits(_)
Digits(k) ==
    IF k < 10 THEN <<DigitTok[k + 1]>>
    ELSE Digits(k \div 10) \o <<DigitTok[(k % 10) + 1]>>

\* astype(str) of one cell: a missing value becomes the text "nan".
astype_str(v) ==
    CASE v.t = "str" -> v
      [] v.t = "num" -> Str(Digits(v.n))
      [] OTHER -> Str(<<"n", "a", "n">>)

\* str.startswith("C")
startswith_C(v) == v.s # <<>> /\ v.s[1] = "C"

\* v > 0 and v >= 0 (False on NaN)
gt0(v) == (v.t = "num" /\ v.n > 0) \/ v.t = "inf"

ge0(v) == (v.t = "num" /\ v.n >= 0) \/ v.t = "inf"

\* astype(int) of one cell truncates a float toward zero and raises on a
\* text that is no number.
can_astype_int(v) == v.t \in {"num", "frac"}

astype_int(v) ==
    IF v.t = "frac"
    THEN Num(IF v.tenths >= 0 THEN v.tenths \div 10 ELSE -((-v.tenths) \div 10))
    ELSE v

Sign(v) ==
    CASE v.t = "inf" -> 1
      [] v.t = "ninf" -> -1
      [] v.t = "num" -> (IF v.n > 0 THEN 1 ELSE IF v.n < 0 THEN -1 ELSE 0)

\* a * b in floating point: NaN propagates, inf * 0 is NaN.
Mul(a, b) ==
    IF isna(a) \/ isna(b) THEN NULL
    ELSE IF a.t = "num" /\ b.t = "num" THEN Num(a.n * b.n)
    ELSE IF Sign(a) * Sign(b) = 0 THEN NULL
    ELSE IF Sign(a) * Sign(b) > 0 THEN INF ELSE NINF

----------------------------------------------------------------------------
(* clean_transactions *)

\* Rows without customer kept.
C5m_DropMissingCustomer(df) == df

\* Line 47
DropMissingCustomer(df) == dropna_subset(df, N_CustomerID)

\* Lines 50-51
ParseDates(df) ==
    LET ser == Series(df, N_InvoiceDate)
    IN  dropna_subset(
            SetCol(df, N_InvoiceDate, [i \in DOMAIN df.rows |-> to_datetime(ser[i])]),
            N_InvoiceDate)

\* The invoice identifiers made text, the cancellations kept.
C1m_DropCancellations(df) ==
    LET ser == Series(df, N_InvoiceNo)
    IN  SetCol(df, N_InvoiceNo, [i \in DOMAIN df.rows |-> astype_str(ser[i])])

\* Lines 54-55
DropCancellations(df) ==
    LET ser == Series(df, N_InvoiceNo)
        d == SetCol(df, N_InvoiceNo, [i \in DOMAIN df.rows |-> astype_str(ser[i])])
        txt == Series(d, N_InvoiceNo)
    IN  Filter(d, [i \in DOMAIN d.rows |-> ~startswith_C(txt[i])])

\* Line 58
SignFilter(df) ==
    LET qty == Series(df, N_Quantity)
        price == Series(df, N_UnitPrice)
    IN  Filter(df, [i \in DOMAIN df.rows |-> gt0(qty[i]) /\ gt0(price[i])])

\* Rows that reach line 61.
BeforeCast(df) == SignFilter(DropCancellations(ParseDates(DropMissingCustomer(df))))

\* Line 61
CastCustomer(df) ==
    LET ser == Series(df, N_CustomerID)
    IN  SetCol(df, N_CustomerID, [i \in DOMAIN df.rows |-> astype_int(ser[i])])

\* Line 64: a new column TotalPrice, appended.
AddTotalPrice(df) ==
    LET qty == Series(df, N_Quantity)
        price == Series(df, N_UnitPrice)
    IN  [columns |-> Append(df.columns, N_TotalPrice),
         rows |-> [i \in DOMAIN df.rows |-> Append(df.rows[i], Mul(qty[i], price[i]))]]

\* The call clean_transactions(df): whether it raised and what, the table it
\* returned, and the column names of the caller's table after the call
\* (line 24 assigns df.columns on the object it was given).
clean_transactions(df) ==
    LET stripped == StripColumns(df.columns)
        renamed == [columns |-> RenameColumns(stripped), rows |-> df.rows]
        missing == MissingCols(renamed.columns)
        filtered == BeforeCast(renamed)
    IN  IF missing # {}
        THEN [raised |-> TRUE,
              error |-> [t |-> "error", kind |-> "ValueError",
                         what |-> "Missing required columns",
                         missing |-> missing, found |-> renamed.columns],
              table |-> NONE, input_columns |-> stripped]
        ELSE IF \E v \in Range(Series(filtered, N_CustomerID)) : ~can_astype_int(v)
        THEN [raised |-> TRUE,
              error |-> [t |-> "error", kind |-> "ValueError",
                         what |-> "invalid literal for int()"],
              table |-> NONE, input_columns |-> stripped]
        ELSE [raised |-> FALSE, error |-> NONE,
              table |-> AddTotalPrice(CastCustomer(filtered)),
              input_columns |-> stripped]

----------------------------------------------------------------------------
(* build_rfm *)

NotNa(series) == {v \in Range(series) : ~isna(v)}

\* Series.max() of a datetime column: NaT is skipped; NaT when nothing is left.
ts_max(series) ==
    LET S == NotNa(series)
    IN  IF S = {} THEN NULL ELSE CHOOSE v \in S : \A w \in S : w.h <= v.h

\* ts + pd.Timedelta(days=d)
add_days(ts, d) == IF isna(ts) THEN NULL ELSE Ts(ts.h + 2 * d)

\* (a - b).days: the whole days of the difference, rounded down; NaN on NaT.
days_between(a, b) ==
    IF isna(a) \/ isna(b) THEN NULL ELSE Num((a.h - b.h) \div 2)

\* Line 71
snapshot_date(df) == add_days(ts_max(Series(df, N_InvoiceDate)), 1)

\* Series.nunique(): the distinct values that are not missing.
nunique(series) == Cardinality(NotNa(series))

\* a + b in floating point.
Add(a, b) ==
    IF isna(a) \/ isna(b) THEN NULL
    ELSE IF a.t = "num" /\ b.t = "num" THEN Num(a.n + b.n)
    ELSE IF a.t = "num" THEN b
    ELSE IF b.t = "num" \/ a.t = b.t THEN a
    ELSE NULL

\* Series.sum(): missing values are skipped.
RECURSIVE series_sum(_)
series_sum(series) ==
    IF series = <<>> THEN Num(0)
    ELSE IF isna(Head(series)) THEN series_sum(Tail(series))
    ELSE Add(Head(series), series_sum(Tail(series)))

\* The group keys of df.groupby("CustomerID"): the customer identifiers that
\* are not missing, in ascending order.
RECURSIVE SortAsc(_)
SortAsc(S) ==
    IF S = {} THEN <<>>
    ELSE LET lo == CHOOSE x \in S : \A y \in S : x <= y
         IN  <<lo>> \o SortAsc(S \ {lo})

\* One key per line item instead of one per customer.
C8m_GroupKeys(df) ==
    LET ser == Series(df, N_CustomerID) IN [i \in DOMAIN ser |-> ser[i].n]

GroupKeys(df) == SortAsc({v.n : v \in NotNa(Series(df, N_CustomerID))})

Group(df, k) ==
    LET ser == Series(df, N_CustomerID)
    IN  Filter(df, [i \in DOMAIN df.rows |-> ser[i] = Num(k)])

\* Line 76
Recency(snapshot, g) == days_between(snapshot, ts_max(Series(g, N_InvoiceDate)))

\* The line items counted instead of the distinct invoices.
C6m_Frequency(g) == Num(Len(g.rows))

\* Line 77
Frequency(g) == Num(nunique(Series(g, N_InvoiceNo)))

\* Line 78
Monetary(g) == series_sum(Series(g, N_TotalPrice))

\* Lines 73-81
Aggregate(df) ==
    LET snapshot == snapshot_date(df)
        keys == GroupKeys(df)
    IN  [columns |-> <<N_CustomerID, N_Recency, N_Frequency, N_Monetary>>,
         rows |-> [j \in DOMAIN keys |->
                     LET g == Group(df, keys[j])
                     IN  <<Num(keys[j]), Recency(snapshot, g), Frequency(g), Monetary(g)>>]]

\* The guard left out.
C7m_InfGuard(t) == t

\* Line 84: replace([inf, -inf], nan).dropna()
InfGuard(t) ==
    LET r == [t EXCEPT !.rows =
                [i \in DOMAIN t.rows |->
                    [c \in DOMAIN t.rows[i] |->
                        IF t.rows[i][c].t \in {"inf", "ninf"} THEN NULL
                        ELSE t.rows[i][c]]]]
    IN  Filter(r, [i \in DOMAIN r.rows |-> \A c \in DOMAIN r.rows[i] : ~isna(r.rows[i][c])])

\* Line 87
SanityFilter(t) ==
    LET f == Series(t, N_Frequency)
        m == Series(t, N_Monetary)
        r == Series(t, N_Recency)
    IN  Filter(t, [i \in DOMAIN t.rows |-> gt0(f[i]) /\ gt0(m[i]) /\ ge0(r[i])])

build_rfm(df) == SanityFilter(InfGuard(Aggregate(df)))

----------------------------------------------------------------------------
(* The raw tables a run may find on disk *)

\* The most line items of a table handed to clean_transactions or build_rfm.
MaxRows == 3

\* The most line items of the file a whole run of main reads.
MaxRowsMain == 2

T5 == Str(<<"5">>)
T6 == Str(<<"6">>)
Jan2 == DateText(2, 1, 0)
Jan2pm == DateText(2, 1, 1)
Feb1 == DateText(1, 2, 0)
Feb3 == DateText(3, 2, 0)
UK == Str(<<"UK">>)

\* Line items, as (invoice, date, customer, quantity, price, country).
RowPool ==
    { <<T5, Jan2, Frac(10), Num(2), Num(3), UK>>,
      <<T5, Jan2pm, Frac(10), Num(1), Num(5), UK>>,
      <<T6, Feb1, Frac(10), Num(1), Num(5), UK>>,
      <<Num(5), Jan2pm, Frac(25), Num(2), Num(3), UK>>,
      <<T6, Feb3, NULL, Num(1), Num(5), UK>>,
      <<T6, Str(<<"x">>), Frac(10), Num(1), Num(5), UK>>,
      <<Str(<<"C", "5">>), Feb3, Frac(10), Num(2), Num(3), UK>>,
      <<T6, Feb3, Frac(10), Num(0), Num(3), UK>>,
      <<T6, Feb3, Frac(10), Num(2), Num(-1), UK>>,
      <<T6, Feb3, Frac(10), Num(-6), Num(3), UK>>,
      <<T6, Jan2, Frac(25), Num(2), INF, UK>>,
      <<NULL, Jan2, Frac(25), Num(1), Num(5), UK>>,
      <<T5, Jan2, Str(<<"X">>), Num(1), Num(5), UK>> }

CanonicalHeader == <<N_InvoiceNo, N_InvoiceDate, N_CustomerID, N_Quantity, N_UnitPrice>>

\* Header lines: the canonical names, the synonyms, names with blanks around
\* them and a column the pipeline does not know, an unknown name in place of
\* a required one, and a required column left out.
Headers ==
    { CanonicalHeader,
      <<N_Invoice, N_InvoiceDate, N_Customer_ID, N_Quantity, N_Price>>,
      << <<" ">> \o N_InvoiceNo, N_InvoiceDate \o <<" ">>,
         <<" ">> \o N_Customer_ID \o <<" ">>, N_Quantity,
         N_Price \o <<" ", " ">>, <<" ", "Country">> >>,
      <<N_InvoiceNo, <<"Date">>, N_CustomerID, N_Quantity, N_UnitPrice>>,
      <<N_Invoice \o <<" ">>, N_InvoiceDate, N_Customer_ID, N_Quantity>> }

MakeTable(header, rows) ==
    [columns |-> header,
     rows |-> [i \in DOMAIN rows |-> SubSeq(rows[i], 1, Len(header))]]

\* t is a raw table of at most n line items under header h.
IsRawTable(t, h, n) == \E k \in 0..n : \E rows \in [1..k -> RowPool] : t = MakeTable(h, rows)

EmptyTable == [columns |-> <<>>, rows |-> <<>>]

\* Tables handed to build_rfm directly, as (invoice, date, customer, total).
AnyPool ==
    { <<T5, Ts(2), Num(1), Num(6)>>,
      <<T6, Ts(5), Num(1), Num(5)>>,
      <<T5, Ts(9), Num(2), Num(-7)>>,
      <<NULL, Ts(2), Num(2), Num(6)>>,
      <<T6, NULL, Num(2), Num(6)>>,
      <<T5, Ts(2), Num(1), INF>>,
      <<T5, Ts(2), Num(1), NINF>>,
      <<T6, Ts(2), NULL, Num(6)>>,
      <<T6, Ts(2), Num(2), NULL>>,
      <<T6, Ts(9), Num(3), Num(0)>> }

IsAnyTable(t, n) ==
    \E k \in 0..n : \E rows \in [1..k -> AnyPool] :
        t = [columns |-> <<N_InvoiceNo, N_InvoiceDate, N_CustomerID, N_TotalPrice>>,
             rows |-> rows]

----------------------------------------------------------------------------
(* main *)

\* A run of main, from its start.
InitMain ==
    /\ files \in SUBSET {RAW_PATH_CSV, RAW_PATH_XLSX}
    /\ IF files = {} THEN fileTable = EmptyTable
       ELSE \E h \in Headers : IsRawTable(fileTable, h, MaxRowsMain)
    /\ pc = "start"
    /\ df_raw = NONE
    /\ df_clean = NONE
    /\ rfm = NONE
    /\ outFile = NONE
    /\ error = NONE
    /\ steps = <<>>

\* A run of main at line 96, the table read from the CSV file: up to MaxRows
\* line items under the canonical header, one fewer under the other headers.
InitLoaded ==
    /\ files = {RAW_PATH_CSV}
    /\ \E h \in Headers :
          IsRawTable(fileTable, h, IF h = CanonicalHeader THEN MaxRows ELSE MaxRows - 1)
    /\ pc = "loaded"
    /\ df_raw = fileTable
    /\ df_clean = NONE
    /\ rfm = NONE
    /\ outFile = NONE
    /\ error = NONE
    /\ steps = <<"read_csv">>

\* build_rfm on any table with the columns it reads.
InitRfm ==
    /\ files = {}
    /\ fileTable = EmptyTable
    /\ pc = "cleaned"
    /\ df_raw = NONE
    /\ IsAnyTable(df_clean, MaxRows)
    /\ rfm = NONE
    /\ outFile = NONE
    /\ error = NONE
    /\ steps = <<>>

\* load_data, called on line 93.
Load ==
    /\ pc = "start"
    /\ \/ /\ RAW_PATH_CSV \in files
          /\ df_raw' = fileTable
          /\ steps' = Append(steps, "read_csv")
          /\ pc' = "loaded"
          /\ error' = error
       \/ /\ RAW_PATH_CSV \notin files
          /\ RAW_PATH_XLSX \in files
          /\ df_raw' = fileTable
          /\ steps' = Append(steps, "read_excel")
          /\ pc' = "loaded"
          /\ error' = error
       \/ /\ RAW_PATH_CSV \notin files
          /\ RAW_PATH_XLSX \notin files
          /\ error' = [t |-> "error", kind |-> "FileNotFoundError"]
          /\ pc' = "failed"
          /\ UNCHANGED <<df_raw, steps>>
    /\ UNCHANGED <<files, fileTable, df_clean, rfm, outFile>>

\* clean_transactions(df_raw), line 96.
Clean ==
    /\ pc = "loaded"
    /\ LET r == clean_transactions(df_raw)
       IN  /\ df_raw' = [df_raw EXCEPT !.columns = r.input_columns]
           /\ IF r.raised
              THEN /\ error' = r.error
                   /\ pc' = "failed"
                   /\ UNCHANGED <<df_clean, steps>>
              ELSE /\ df_clean' = r.table
                   /\ steps' = Append(steps, "clean_transactions")
                   /\ pc' = "cleaned"
                   /\ error' = error
    /\ UNCHANGED <<files, fileTable, rfm, outFile>>

\* build_rfm(df_clean), line 99.
BuildRfm ==
    /\ pc = "cleaned"
    /\ rfm' = build_rfm(df_clean)
    /\ steps' = Append(steps, "build_rfm")
    /\ pc' = "built"
    /\ UNCHANGED <<files, fileTable, df_raw, df_clean, outFile, error>>

\* The file written as soon as the table is loaded.
C9m_Save ==
    /\ pc = "loaded"
    /\ outFile = NONE
    /\ outFile' = df_raw
    /\ UNCHANGED <<files, fileTable, pc, df_raw, df_clean, rfm, error, steps>>

\* rfm.to_csv(OUT_PATH, index=False), lines 102-103.
Save ==
    /\ pc = "built"
    /\ outFile' = rfm
    /\ steps' = Append(steps, "to_csv")
    /\ pc' = "saved"
    /\ UNCHANGED <<files, fileTable, df_raw, df_clean, rfm, error>>

NextMain == Load \/ Clean \/ BuildRfm \/ Save

SpecMain == InitMain /\ [][NextMain]_vars

NextPipeline == Clean \/ BuildRfm

SpecPipeline == InitLoaded /\ [][NextPipeline]_vars

NextRfm == BuildRfm

SpecRfm == InitRfm /\ [][NextRfm]_vars

----------------------------------------------------------------------------
(* What the properties below speak of, stated apart from the pipeline *)

\* The supported synonyms, as (alias, canonical name).
Aliases ==
    { <<N_Invoice, N_InvoiceNo>>, <<N_Customer_ID, N_CustomerID>>,
      <<N_Price, N_UnitPrice>> }

CanonicalSchema ==
    {N_InvoiceNo, N_InvoiceDate, N_CustomerID, N_Quantity, N_UnitPrice}

Blanks(k) == [i \in 1..k |-> " "]

\* The name n without the blanks around it.
Core(n) ==
    CHOOSE u \in {SubSeq(n, i, j) : i \in 1..(Len(n) + 1), j \in 0..Len(n)} :
        /\ u = <<>> \/ (u[1] # " " /\ u[Len(u)] # " ")
        /\ \E l, r \in 0..Len(n) : n = Blanks(l) \o u \o Blanks(r)

\* The canonical name a column name stands for.
Canonical(n) ==
    IF \E a \in Aliases : a[1] = Core(n)
    THEN (CHOOSE a \in Aliases : a[1] = Core(n))[2]
    ELSE Core(n)

Pad(n) == {Blanks(l) \o n \o Blanks(r) : l \in 0..2, r \in 0..2}

\* The column names of the raw tables, in every spelling.
Names ==
    UNION {Pad(w) : w \in {Core(n) : n \in UNION {Range(h) : h \in Headers}}
                              \cup {a[1] : a \in Aliases} \cup CanonicalSchema}

CanonTable == [n \in Names |-> Canonical(n)]

CanonOf(n) == CanonTable[n]

CanonHeader(columns) == [i \in DOMAIN columns |-> CanonOf(columns[i])]

\* A way to spell every column name: with the alias or the canonical name,
\* bare or with a blank on either side.
Styles == [alias : BOOLEAN, pad : 0..1]

Respell(n, style) ==
    LET c == CanonOf(n)
        w == IF style.alias /\ \E a \in Aliases : a[2] = c
             THEN (CHOOSE a \in Aliases : a[2] = c)[1]
             ELSE c
    IN  Blanks(style.pad) \o w \o Blanks(style.pad)

RespellTable(t, style) ==
    [t EXCEPT !.columns = [i \in DOMAIN t.columns |-> Respell(t.columns[i], style)]]

SchemaComplete == CanonicalSchema \subseteq Range(CanonHeader(fileTable.columns))

\* The cells of the raw table under the column that stands for name.
RawCells(name) ==
    LET c == CHOOSE i \in DOMAIN fileTable.columns :
                 CanonOf(fileTable.columns[i]) = name
    IN  [i \in DOMAIN fileTable.rows |-> fileTable.rows[i][c]]

Positive(v) == v.t = "inf" \/ (v.t = "num" /\ v.n > 0)

BeginsWithC(v) == v.t = "str" /\ v.s # <<>> /\ v.s[1] = "C"

AfterClean == pc \in {"cleaned", "built", "saved"}

CleanCells(name) == Series(df_clean, name)

----------------------------------------------------------------------------
\* C1: every row of the table clean_transactions returns has a customer
\* identifier, a parsed invoice date, an invoice identifier that does not
\* begin with C, quantity > 0, unit price > 0 and TotalPrice = quantity x unit
\* price > 0; the rows are no more than the raw rows whose invoice identifier
\* does not begin with C.
C1_CleanRowsValid ==
    AfterClean =>
        /\ LET cust == CleanCells(N_CustomerID)
               date == CleanCells(N_InvoiceDate)
               inv == CleanCells(N_InvoiceNo)
               qty == CleanCells(N_Quantity)
               price == CleanCells(N_UnitPrice)
               total == CleanCells(N_TotalPrice)
           IN  \A i \in DOMAIN df_clean.rows :
                  /\ cust[i].t = "num"
                  /\ date[i].t = "ts"
                  /\ inv[i].t = "str"
                  /\ ~BeginsWithC(inv[i])
                  /\ Positive(qty[i])
                  /\ Positive(price[i])
                  /\ Positive(total[i])
                  /\ total[i] = IF qty[i].t = "num" /\ price[i].t = "num"
                                THEN Num(qty[i].n * price[i].n)
                                ELSE INF
        /\ Len(df_clean.rows) <=
              Cardinality(LET raw == RawCells(N_InvoiceNo)
                          IN  {i \in DOMAIN fileTable.rows : ~BeginsWithC(raw[i])})

\* A cancellation and a line item that is kept, in one raw table.
C1_Witness ==
    /\ pc = "cleaned"
    /\ Len(df_clean.rows) >= 1
    /\ \E i \in DOMAIN fileTable.rows : BeginsWithC(RawCells(N_InvoiceNo)[i])

IsSchemaError(e) ==
    e.t = "error" /\ e.kind = "ValueError" /\ e.what = "Missing required columns"

\* C2: clean_transactions raises the schema error exactly when a required
\* column is absent after the names are stripped and the synonyms mapped; the
\* error carries the missing and the found columns, no table is returned and
\* no row was touched.
C2_SchemaError ==
    pc # "loaded" =>
        /\ IsSchemaError(error) <=> ~SchemaComplete
        /\ ~SchemaComplete =>
              /\ pc = "failed"
              /\ error.missing = CanonicalSchema \ Range(CanonHeader(fileTable.columns))
              /\ error.found = CanonHeader(fileTable.columns)
              /\ df_clean = NONE
              /\ df_raw.rows = fileTable.rows

\* A schema error on a table with rows, one of which could not be cast.
C2_Witness ==
    /\ pc = "failed"
    /\ IsSchemaError(error)
    /\ \E i \in DOMAIN fileTable.rows : fileTable.rows[i][3].t = "str"

\* C3: after clean_transactions the caller's table has the column names and
\* the rows it had before the call.
C3_InputNotMutated == pc # "loaded" => df_raw = fileTable

\* C4: the outcome of clean_transactions is the same however the columns of
\* the raw table are spelled (alias or canonical name, blanks around it).
C4_SynonymEquivalence ==
    pc \in {"cleaned", "failed"} =>
        \A style \in Styles :
            LET r == clean_transactions(RespellTable(fileTable, style))
            IN  IF r.raised THEN pc = "failed" /\ error = r.error
                ELSE pc = "cleaned" /\ df_clean = r.table

\* Rows are kept from a table whose columns are not spelled canonically.
C4_Witness ==
    /\ pc = "cleaned"
    /\ Len(df_clean.rows) >= 2
    /\ fileTable.columns # CanonHeader(fileTable.columns)
    /\ N_Invoice \in Range(fileTable.columns)

\* The raw table without the rows whose customer identifier is missing.
WithoutNullCustomers(t) ==
    LET cust == RawCells(N_CustomerID)
    IN  Filter(t, [i \in DOMAIN t.rows |-> ~isna(cust[i])])

\* C5: the rows of the raw table whose customer identifier is missing change
\* nothing: they are not in the clean table, and the clean table and the RFM
\* table (the snapshot and every Recency with it) are those of the raw table
\* without them.
C5_NullCustomerNoInfluence ==
    (pc # "loaded" /\ SchemaComplete) =>
        LET r == clean_transactions(WithoutNullCustomers(fileTable))
        IN  /\ r.raised <=> pc = "failed"
            /\ AfterClean =>
                  /\ df_clean = r.table
                  /\ \A v \in Range(CleanCells(N_CustomerID)) : ~isna(v)
            /\ pc = "built" => rfm = build_rfm(r.table)

\* An RFM table built from a raw table in which a row without customer
\* carries the latest date.
C5_Witness ==
    /\ pc = "built"
    /\ Len(rfm.rows) >= 1
    /\ \E i \in DOMAIN fileTable.rows :
          /\ isna(RawCells(N_CustomerID)[i])
          /\ \A j \in DOMAIN fileTable.rows :
                RawCells(N_InvoiceDate)[j].t = "date"
                   => to_datetime(RawCells(N_InvoiceDate)[j]).h
                         <= to_datetime(RawCells(N_InvoiceDate)[i]).h
          /\ \E j \in DOMAIN fileTable.rows :
                /\ RawCells(N_InvoiceDate)[j].t = "date"
                /\ to_datetime(RawCells(N_InvoiceDate)[j]).h
                      < to_datetime(RawCells(N_InvoiceDate)[i]).h

\* The rows of the clean table of customer k, and what C6 expects of them.
RowsOf(k) ==
    LET cust == CleanCells(N_CustomerID)
    IN  {i \in DOMAIN df_clean.rows : cust[i] = Num(k)}

CleanCustomers == {v.n : v \in Range(CleanCells(N_CustomerID))}

LatestIn(I) ==
    LET date == CleanCells(N_InvoiceDate)
    IN  CHOOSE h \in {date[i].h : i \in I} : \A i \in I : date[i].h <= h

RECURSIVE TotalOver(_)
TotalOver(I) ==
    IF I = {} THEN 0
    ELSE LET i == CHOOSE x \in I : TRUE
         IN  CleanCells(N_TotalPrice)[i].n + TotalOver(I \ {i})

ExpectedRow(k) ==
    << Num(k),
       Num(((LatestIn(DOMAIN df_clean.rows) + 2) - LatestIn(RowsOf(k))) \div 2),
       Num(Cardinality({CleanCells(N_InvoiceNo)[i] : i \in RowsOf(k)})),
       Num(TotalOver(RowsOf(k))) >>

FiniteTotal(k) == \A i \in RowsOf(k) : CleanCells(N_TotalPrice)[i].t = "num"

\* C6: every row of the RFM table is the row of a customer of the clean
\* table, with Recency the whole days from the snapshot (latest date of the
\* whole table plus one day) back to the customer's latest date, Frequency the
\* number of distinct invoice identifiers of the customer and Monetary the sum
\* of the customer's TotalPrice; every customer whose total is finite has
\* exactly one such row.
C6_RfmValues ==
    pc = "built" =>
        /\ \A j \in DOMAIN rfm.rows :
              /\ rfm.rows[j][1].n \in CleanCustomers
              /\ rfm.rows[j] = ExpectedRow(rfm.rows[j][1].n)
        /\ \A k \in CleanCustomers :
              FiniteTotal(k) =>
                 Cardinality({j \in DOMAIN rfm.rows : rfm.rows[j][1] = Num(k)}) = 1

\* Three line items of one customer under invoices {A, A, B}, the last line
\* item a month after the others.
C6_Witness ==
    /\ pc = "built"
    /\ \E k \in CleanCustomers :
          /\ Cardinality(RowsOf(k)) = 3
          /\ Cardinality({CleanCells(N_InvoiceNo)[i] : i \in RowsOf(k)}) = 2
          /\ \E j \in DOMAIN rfm.rows : rfm.rows[j] = <<Num(k), Num(1), Num(2), Num(16)>>

\* C7: every row of the table build_rfm returns, whatever table it is given,
\* holds numbers with Recency >= 0, Frequency > 0 and Monetary > 0.
C7_RfmInvariant ==
    pc = "built" =>
        \A j \in DOMAIN rfm.rows :
            /\ \A c \in 1..4 : rfm.rows[j][c].t = "num"
            /\ rfm.rows[j][2].n >= 0
            /\ rfm.rows[j][3].n > 0
            /\ rfm.rows[j][4].n > 0

\* One customer kept and another, whose total is infinite, dropped.
C7_Witness ==
    /\ pc = "built"
    /\ Len(rfm.rows) = 1
    /\ \E i \in DOMAIN df_clean.rows :
          /\ CleanCells(N_TotalPrice)[i].t = "inf"
          /\ \A j \in DOMAIN rfm.rows : rfm.rows[j][1] # CleanCells(N_CustomerID)[i]

\* C8: the clean table has no more rows than the raw table; the RFM table has
\* at most one row per customer identifier, only customer identifiers of the
\* clean table, and so no more rows than the clean table has customers.
C8_RowReduction ==
    /\ AfterClean => Len(df_clean.rows) <= Len(fileTable.rows)
    /\ pc = "built" =>
          /\ \A i, j \in DOMAIN rfm.rows : rfm.rows[i][1] = rfm.rows[j][1] => i = j
          /\ \A j \in DOMAIN rfm.rows : rfm.rows[j][1].n \in CleanCustomers
          /\ Len(rfm.rows) <= Cardinality(CleanCustomers)

\* Rows dropped by clean_transactions and a customer dropped by build_rfm.
C8_Witness ==
    /\ pc = "built"
    /\ Len(df_clean.rows) < Len(fileTable.rows)
    /\ Len(rfm.rows) >= 1
    /\ Len(rfm.rows) < Cardinality(CleanCustomers)

\* C9: the output file exists only once load, clean and aggregate have
\* completed in that order and holds the RFM table; a run that failed has
\* written no file.
C9_OutputOnlyAfterPipeline ==
    /\ outFile # NONE =>
          /\ pc = "saved"
          /\ error = NONE
          /\ SubSeq(steps, 2, 4) = <<"clean_transactions", "build_rfm", "to_csv">>
          /\ steps[1] \in {"read_csv", "read_excel"}
          /\ Len(steps) = 4
          /\ outFile = rfm
    /\ pc = "failed" => outFile = NONE /\ error # NONE
    /\ pc \in {"start", "loaded", "cleaned", "built"} => outFile = NONE

\* A run that wrote an RFM table with a row in it.
C9_Witness == pc = "saved" /\ outFile # NONE /\ Len(outFile.rows) >= 1

\* C10: every invoice identifier of the clean table is the text of an invoice
\* identifier that is present in the raw table.
C10_NullInvoiceExcluded ==
    AfterClean =>
        \A v \in Range(CleanCells(N_InvoiceNo)) :
            \E w \in Range(RawCells(N_InvoiceNo)) : ~isna(w) /\ v = astype_str(w)

====
